---- MODULE Spec2Model ----
(***************************************************************************)
(* Model of the myCatan game server: one started game session held in the  *)
(* `games` map of src/src/index.js (board, players, robber, discard phase) *)
(* and the ResourceManager ledger class.                                   *)
(***************************************************************************)
EXTENDS Integers, Sequences, FiniteSets, TLC

VARIABLES
    games,          \* the games map: gameId -> game data
    playerSockets,  \* the playerSockets map: socketId -> player info
    tiles,          \* game.gameState.rowTiles, flattened in board order
    robberPosition, \* game.gameState.robberPosition
    gamePhase,      \* game.gameState.gamePhase
    currentPlayerIndex, \* game.gameState.currentPlayerIndex
    resources,      \* game.gameState.players[i].resources
    settlements,    \* game.gameState.players[i].settlements
    cities,         \* game.gameState.players[i].cities
    roads,          \* game.gameState.players[i].roads
    points,         \* game.gameState.players[i].points
    discardPhase,   \* game.discardPhase (NoDiscard when the property is absent)
    rmResources,    \* ResourceManager.playerResources
    last,           \* the handler that ran last, its inputs and its outcome
    heldAtCreation  \* history: each player's hand size when game.discardPhase was created

\* The lobby: the sessions and the connections
lobbyVars == <<games, playerSockets>>

\* The session under study: its gameState, field by field, and its discardPhase
gameVars == <<tiles, robberPosition, gamePhase, currentPlayerIndex, resources,
              settlements, cities, roads, points, discardPhase>>

vars == <<lobbyVars, gameVars, rmResources, last, heldAtCreation>>

-----------------------------------------------------------------------------
(* Helpers *)

\* s[1] + ... + s[n]
RECURSIVE SumTo(_, _)
SumTo(s, n) == IF n = 0 THEN 0 ELSE s[n] + SumTo(s, n - 1)


\* The least element of a non-empty set of indices
First(indices) == CHOOSE i \in indices : \A j \in indices : i <= j

\* Array.prototype.splice(index, 1)
RemoveAt(s, i) == [j \in 1..(Len(s) - 1) |-> IF j < i THEN s[j] ELSE s[j + 1]]

-----------------------------------------------------------------------------
(* Constants of the program *)

Kinds == {"wood", "brick", "wool", "grain", "ore"}

KindOrder == <<"wood", "brick", "wool", "grain", "ore">>

ZeroBundle == [k \in Kinds |-> 0]

\* BUILDING_COSTS: the kinds a cost does not name are not touched
BUILDING_COSTS ==
    [SETTLEMENT |-> [k \in Kinds |-> IF k \in {"wood", "brick", "wool", "grain"} THEN 1 ELSE 0],
     CITY       |-> [k \in Kinds |-> CASE k = "grain" -> 2 [] k = "ore" -> 3 [] OTHER -> 0],
     ROAD       |-> [k \in Kinds |-> IF k \in {"wood", "brick"} THEN 1 ELSE 0]]

\* BUILDING_RULES.*.maxPerPlayer
MaxSettlementsPerPlayer == 5
MaxCitiesPerPlayer == 4
MaxRoadsPerPlayer == 15

\* resourceMap of distributeResources and of the build-settlement handler
ResourceMapped == {"forest", "hill", "pasture", "field", "mountain"}

resourceMap(type) ==
    CASE type = "forest"   -> "wood"
      [] type = "hill"     -> "brick"
      [] type = "pasture"  -> "wool"
      [] type = "field"    -> "grain"
      [] type = "mountain" -> "ore"

tileTypes ==
    <<"forest", "forest", "forest", "forest",
      "pasture", "pasture", "pasture", "pasture",
      "field", "field", "field", "field",
      "hill", "hill", "hill",
      "mountain", "mountain", "mountain",
      "desert">>

numberTokens == <<2, 3, 3, 4, 4, 5, 5, 6, 6, 8, 8, 9, 9, 10, 10, 11, 11, 12>>

\* `tile-${i}` for the 0-based loop index i
TileIdStrings ==
    <<"tile-0", "tile-1", "tile-2", "tile-3", "tile-4", "tile-5", "tile-6",
      "tile-7", "tile-8", "tile-9", "tile-10", "tile-11", "tile-12", "tile-13",
      "tile-14", "tile-15", "tile-16", "tile-17", "tile-18">>

TileId(i) == TileIdStrings[i + 1]

\* tile.number of the desert
NoNumber == 0

-----------------------------------------------------------------------------
(* Board generation *)

\* A faulty Fisher-Yates loop: the drawn element is copied to position i
\* and the element at i is lost
RECURSIVE ShuffleFromOverwriting(_, _, _)
ShuffleFromOverwriting(shuffled, draws, i) ==
    IF i < 2 THEN shuffled
    ELSE ShuffleFromOverwriting([shuffled EXCEPT ![i] = shuffled[draws[i]]], draws, i - 1)

\* A faulty shuffle: built on the faulty loop
shuffleOverwriting(array, draws) == ShuffleFromOverwriting(array, draws, Len(array))

\* The Fisher-Yates loop of shuffle() from position i down: the elements at
\* i and at the drawn position j <= i change places (positions are 1-based
\* here, so the draw j of the code is draws[i] - 1)
RECURSIVE ShuffleFrom(_, _, _)
ShuffleFrom(shuffled, draws, i) ==
    IF i < 2 THEN shuffled
    ELSE ShuffleFrom([shuffled EXCEPT ![i] = shuffled[draws[i]],
                                      ![draws[i]] = shuffled[i]], draws, i - 1)

shuffle(array, draws) == ShuffleFrom(array, draws, Len(array))

\* Draws of Math.random() in shuffle(): draws[i] is the position drawn for i
NoSwap(n) == [i \in 1..n |-> i]

Mirror(n) == [i \in 1..n |-> IF i > n + 1 - i THEN n + 1 - i ELSE i]

\* The draws the session under study starts from: the tile list as written
\* or reversed, the number list as written
TileDraws == {NoSwap(19), Mirror(19)}

NumberDraws == {NoSwap(18)}

\* The loop of generateBoardState: the i-th tile takes the next unused number
\* unless it is the desert, which gets no number and the robber. A read past
\* the end of the number list gives no number either.
GenerateTiles(shuffledTiles, shuffledNumbers) ==
    [i \in 1..Len(shuffledTiles) |->
        LET numberIndex == Cardinality({j \in 1..(i - 1) : shuffledTiles[j] # "desert"})
        IN  [id        |-> TileId(i - 1),
             type      |-> shuffledTiles[i],
             number    |-> IF shuffledTiles[i] = "desert" THEN NoNumber
                           ELSE IF numberIndex + 1 \in DOMAIN shuffledNumbers
                                THEN shuffledNumbers[numberIndex + 1]
                                ELSE NoNumber,
             hasRobber |-> shuffledTiles[i] = "desert"]]

\* tiles.findIndex(tile => tile.hasRobber), 0-based
InitialRobberPosition(ts) ==
    LET holding == {i \in DOMAIN ts : ts[i].hasRobber}
    IN  IF holding = {} THEN 0 - 1 ELSE First(holding) - 1

\* rowTiles: the slices (0,3), (3,7), (7,12), (12,16), (16,19) of tiles
rowTiles(ts) ==
    <<SubSeq(ts, 1, 3), SubSeq(ts, 4, 7), SubSeq(ts, 8, 12), SubSeq(ts, 13, 16),
      SubSeq(ts, 17, 19)>>

-----------------------------------------------------------------------------
(* Players of the started session *)

\* game.players, in join order: the names given at create-game and join-game
PlayerNames == <<"A", "B">>

Players == DOMAIN PlayerNames

NoDiscard == [active |-> FALSE]

\* String(index + 1)
PlayerIdStrings == <<"1", "2", "3", "4">>

PlayerId(p) == PlayerIdStrings[p]

-----------------------------------------------------------------------------
(* Initial state: the session right after start-game *)

InitGame ==
    /\ \E td \in TileDraws, nd \in NumberDraws :
          tiles = GenerateTiles(shuffle(tileTypes, td), shuffle(numberTokens, nd))
    /\ robberPosition = InitialRobberPosition(tiles)
    /\ gamePhase = "setup"
    /\ currentPlayerIndex = 0
    /\ resources = [p \in Players |-> ZeroBundle]
    /\ settlements = [p \in Players |-> <<>>]
    /\ cities = [p \in Players |-> <<>>]
    /\ roads = [p \in Players |-> <<>>]
    /\ points = [p \in Players |-> 0]
    /\ discardPhase = NoDiscard

InitRM == rmResources = << >>

\* The gameId of the session under study and the sockets of its players,
\* in join order
SessionId == "G1"

SessionSockets == <<"c1", "c2">>

\* The lobby around the session under study: created by the first player,
\* joined by the others, started; its gameState is held in the variables
\* of gameVars
InitSessionLobby ==
    /\ games = [g \in {SessionId} |->
                  [id         |-> SessionId,
                   host       |-> PlayerNames[1],
                   players    |-> [p \in Players |->
                                     [name |-> PlayerNames[p], socketId |-> SessionSockets[p]]],
                   maxPlayers |-> 4,
                   status     |-> "playing"]]
    /\ playerSockets = [c \in {SessionSockets[p] : p \in Players} |->
                          LET p == CHOOSE q \in Players : SessionSockets[q] = c
                          IN  [playerName |-> PlayerNames[p], gameId |-> SessionId,
                               isHost |-> p = 1]]

Init ==
    /\ InitGame
    /\ InitRM
    /\ InitSessionLobby
    /\ last = [op |-> "start-game", actor |-> 1, outcome |-> "started"]
    /\ heldAtCreation = [p \in Players |-> 0]

\* The start on the board of the unpermuted tile and number lists
InitFirstBoard ==
    /\ Init
    /\ tiles = GenerateTiles(tileTypes, numberTokens)

-----------------------------------------------------------------------------
(* start-game sent again to the session under study *)

\* The sender must be recorded as host and the session needs two players;
\* the status is not looked at. game.gameState is replaced by a newly
\* generated board, so initializeGameStateTracking finds no players, no
\* currentPlayerIndex and no gamePhase and creates them again.
\* game.discardPhase is not part of gameState and stays.
StartGame(p, tileDraws, numberDraws) ==
    LET playerInfo == playerSockets[SessionSockets[p]]
        game == games[playerInfo.gameId]
        outcome == IF ~playerInfo.isHost THEN "not-host"
                   ELSE IF Len(game.players) < 2 THEN "too-few"
                   ELSE "started"
        newTiles == GenerateTiles(shuffle(tileTypes, tileDraws),
                                  shuffle(numberTokens, numberDraws))
    IN  /\ IF outcome = "started"
           THEN /\ games' = [games EXCEPT ![playerInfo.gameId].status = "playing"]
                /\ tiles' = newTiles
                /\ robberPosition' = InitialRobberPosition(newTiles)
                /\ gamePhase' = "setup"
                /\ currentPlayerIndex' = 0
                /\ resources' = [q \in Players |-> ZeroBundle]
                /\ settlements' = [q \in Players |-> <<>>]
                /\ cities' = [q \in Players |-> <<>>]
                /\ roads' = [q \in Players |-> <<>>]
                /\ points' = [q \in Players |-> 0]
           ELSE UNCHANGED <<games, tiles, robberPosition, gamePhase, currentPlayerIndex,
                            resources, settlements, cities, roads, points>>
        /\ last' = [op |-> "start-game", actor |-> p, outcome |-> outcome]
        /\ UNCHANGED <<playerSockets, discardPhase, rmResources, heldAtCreation>>

-----------------------------------------------------------------------------
(* Resource deduction of index.js *)

\* deductResources(player, buildingType): subtracts the cost, no check
deductResources(bundle, buildingType) ==
    [k \in Kinds |-> bundle[k] - BUILDING_COSTS[buildingType][k]]

\* JavaScript `!x` of a string, and `===` between a boolean and a string
JsNot(str) == str = ""
StrictEqualsBooleanString(b, str) == FALSE

\* !game.gameState.gamePhase === 'setup' && !game.gameState.gamePhase === 'SETUP'
SettlementCostApplies(phase) ==
    /\ StrictEqualsBooleanString(JsNot(phase), "setup")
    /\ StrictEqualsBooleanString(JsNot(phase), "SETUP")

\* A faulty UpdatedPoints: a city counted as one point
UpdatedPointsCityAsOne(playerSettlements, playerCities) ==
    Len(playerSettlements) + Len(playerCities)

\* player.points: cities = 2 points, settlements = 1 point
UpdatedPoints(playerSettlements, playerCities) ==
    Len(playerSettlements) + Len(playerCities) * 2

-----------------------------------------------------------------------------
(* build-settlement *)

\* Initial resources of one kind for the second settlement in setup: one unit
\* per entry of adjacentTiles that names a tile of the board other than the desert
SetupCredit(adjacentTiles, kind) ==
    Cardinality({i \in DOMAIN adjacentTiles :
        \E j \in DOMAIN tiles :
            /\ tiles[j].id = adjacentTiles[i]
            /\ tiles[j].type # "desert"
            /\ tiles[j].type \in ResourceMapped
            /\ resourceMap(tiles[j].type) = kind})

BuildSettlement(p, vertexId, adjacentTiles) ==
    LET newSettlements == Append(settlements[p],
                                 [vertexId |-> vertexId, adjacentTiles |-> adjacentTiles])
        afterCost == IF SettlementCostApplies(gamePhase)
                     THEN deductResources(resources[p], "SETTLEMENT")
                     ELSE resources[p]
        secondInSetup == gamePhase \in {"setup", "SETUP"} /\ Len(newSettlements) = 2
        afterBonus == IF secondInSetup /\ Len(adjacentTiles) > 0
                      THEN [k \in Kinds |-> afterCost[k] + SetupCredit(adjacentTiles, k)]
                      ELSE afterCost
    IN  /\ settlements' = [settlements EXCEPT ![p] = newSettlements]
        /\ resources' = [resources EXCEPT ![p] = afterBonus]
        /\ points' = [points EXCEPT ![p] = UpdatedPoints(newSettlements, cities[p])]
        /\ last' = [op |-> "build-settlement", actor |-> p, vertexId |-> vertexId,
                    adjacentTiles |-> adjacentTiles]
        /\ UNCHANGED <<tiles, robberPosition, gamePhase, cities, roads,
                       discardPhase, rmResources, heldAtCreation,
                       currentPlayerIndex, lobbyVars>>

-----------------------------------------------------------------------------
(* build-city *)

\* player.settlements.findIndex(s => s.vertexId === vertexId), 1-based;
\* 0 when the player has no settlement there (-1 in the code)
SettlementIndex(p, vertexId) ==
    LET found == {i \in DOMAIN settlements[p] : settlements[p][i].vertexId = vertexId}
    IN  IF found = {} THEN 0 ELSE First(found)

\* A faulty CityAdjacentTiles: the list sent with the action, never the settlement's
CityAdjacentTilesAsSent(p, vertexId, adjacentTiles) == adjacentTiles

\* cityAdjacentTiles: the list sent with the action, or, when that is empty,
\* the list of the player's first settlement at the vertex
CityAdjacentTiles(p, vertexId, adjacentTiles) ==
    LET idx == SettlementIndex(p, vertexId)
    IN  IF Len(adjacentTiles) = 0 /\ idx # 0
        THEN settlements[p][idx].adjacentTiles
        ELSE adjacentTiles

\* player.settlements after the splice of the upgraded settlement
SettlementsAfterUpgrade(p, vertexId) ==
    LET idx == SettlementIndex(p, vertexId)
    IN  IF idx # 0 THEN RemoveAt(settlements[p], idx) ELSE settlements[p]

BuildCity(p, vertexId, adjacentTiles) ==
    LET newCities == Append(cities[p],
                            [vertexId |-> vertexId,
                             adjacentTiles |-> CityAdjacentTiles(p, vertexId, adjacentTiles)])
        newSettlements == SettlementsAfterUpgrade(p, vertexId)
    IN  /\ cities' = [cities EXCEPT ![p] = newCities]
        /\ settlements' = [settlements EXCEPT ![p] = newSettlements]
        /\ points' = [points EXCEPT ![p] = UpdatedPoints(newSettlements, newCities)]
        /\ resources' = [resources EXCEPT ![p] = deductResources(@, "CITY")]
        /\ last' = [op |-> "build-city", actor |-> p, vertexId |-> vertexId,
                    adjacentTiles |-> adjacentTiles]
        /\ UNCHANGED <<tiles, robberPosition, gamePhase, roads, discardPhase, rmResources, heldAtCreation,
                       currentPlayerIndex, lobbyVars>>

-----------------------------------------------------------------------------
(* build-road *)

\* A faulty BuildRoad: the cost taken whatever the marker sent
BuildRoadAlwaysDeducts(p, edgeId, phaseMarker) ==
    /\ roads' = [roads EXCEPT ![p] = Append(@, [edgeId |-> edgeId])]
    /\ resources' = [resources EXCEPT ![p] = deductResources(@, "ROAD")]
    /\ last' = [op |-> "build-road", actor |-> p, edgeId |-> edgeId,
                gamePhase |-> phaseMarker]
    /\ UNCHANGED <<tiles, robberPosition, gamePhase, settlements, cities, points,
                   discardPhase, rmResources, heldAtCreation,
                   currentPlayerIndex, lobbyVars>>

BuildRoad(p, edgeId, phaseMarker) ==
    /\ roads' = [roads EXCEPT ![p] = Append(@, [edgeId |-> edgeId])]
    /\ resources' = [resources EXCEPT ![p] =
                        IF phaseMarker = "PLAY" THEN deductResources(@, "ROAD") ELSE @]
    /\ last' = [op |-> "build-road", actor |-> p, edgeId |-> edgeId,
                gamePhase |-> phaseMarker]
    /\ UNCHANGED <<tiles, robberPosition, gamePhase, settlements, cities, points,
                   discardPhase, rmResources, heldAtCreation,
                       currentPlayerIndex, lobbyVars>>

-----------------------------------------------------------------------------
(* game-phase-update *)

\* The handler looks up neither the sender nor the sender's session
GamePhaseUpdate(phase) ==
    /\ gamePhase' = phase
    /\ last' = [op |-> "game-phase-update", gamePhase |-> phase]
    /\ UNCHANGED <<tiles, robberPosition, resources, settlements, cities, roads,
                   points, discardPhase, rmResources, heldAtCreation,
                       currentPlayerIndex, lobbyVars>>

-----------------------------------------------------------------------------
(* roll-dice and distributeResources *)

\* Math.floor(Math.random() * 6) + 1
Dice == 1..6

\* dice1 + dice2
DiceTotals == {dice1 + dice2 : dice1 \in Dice, dice2 \in Dice}

\* settlement.adjacentTiles.some(adjTile => String(adjTile) === String(tile.id))
IncludesTile(building, tile) == \E i \in DOMAIN building.adjacentTiles :
                                    building.adjacentTiles[i] = tile.id

\* How many of a player's settlements (or cities) are adjacent to the tile
AdjacentCount(buildings, tile) ==
    Cardinality({i \in DOMAIN buildings : IncludesTile(buildings[i], tile)})

\* A faulty Production: a city credited like a settlement
ProductionCityAsSettlement(q, k, diceRoll) ==
    SumTo([j \in DOMAIN tiles |->
        IF /\ tiles[j].number = diceRoll
           /\ tiles[j].type # "desert"
           /\ ~tiles[j].hasRobber
           /\ tiles[j].type \in ResourceMapped
           /\ resourceMap(tiles[j].type) = k
        THEN AdjacentCount(settlements[q], tiles[j])
             + AdjacentCount(cities[q], tiles[j])
        ELSE 0], Len(tiles))

\* What distributeResources credits player q in resource kind k for diceRoll
Production(q, k, diceRoll) ==
    SumTo([j \in DOMAIN tiles |->
        IF /\ tiles[j].number = diceRoll
           /\ tiles[j].type # "desert"
           /\ ~tiles[j].hasRobber
           /\ tiles[j].type \in ResourceMapped
           /\ resourceMap(tiles[j].type) = k
        THEN AdjacentCount(settlements[q], tiles[j])
             + 2 * AdjacentCount(cities[q], tiles[j])
        ELSE 0], Len(tiles))

distributeResources(diceRoll) ==
    [q \in Players |-> [k \in Kinds |-> resources[q][k] + Production(q, k, diceRoll)]]

\* A faulty RollDice: a 7 pays out the tiles with token 4
RollDiceSevenPays(p, total) ==
    /\ total \in DiceTotals
    /\  /\ resources' = distributeResources(IF total = 7 THEN 4 ELSE total)
        /\ last' = [op |-> "roll-dice", actor |-> p, total |-> total]
        /\ UNCHANGED <<tiles, robberPosition, gamePhase, settlements, cities, roads,
                       points, discardPhase, rmResources, heldAtCreation,
                       currentPlayerIndex, lobbyVars>>

RollDice(p, total) ==
    /\ total \in DiceTotals
    /\  /\ resources' = IF total # 7 THEN distributeResources(total) ELSE resources
        /\ last' = [op |-> "roll-dice", actor |-> p, total |-> total]
        /\ UNCHANGED <<tiles, robberPosition, gamePhase, settlements, cities, roads,
                       points, discardPhase, rmResources, heldAtCreation,
                       currentPlayerIndex, lobbyVars>>

-----------------------------------------------------------------------------
(* move-robber *)

\* A faulty MoveRobberTiles: the flag of the tile the robber leaves is kept
MoveRobberTilesKeepingOld(tileId) ==
    [j \in DOMAIN tiles |->
        [tiles[j] EXCEPT !.hasRobber = (tiles[j].hasRobber \/ tiles[j].id = tileId)]]

\* The flags after clearing every robber flag and setting it on the tiles
\* whose id is tileId
MoveRobberTiles(tileId) ==
    [j \in DOMAIN tiles |-> [tiles[j] EXCEPT !.hasRobber = (tiles[j].id = tileId)]]

\* targetPlayerId as sent by the client: no target, or a string
NoTarget == ""

\* parseInt(targetPlayerId) for the strings the model sends (0: NaN)
ParseInt(str) ==
    CASE str = "1" -> 1 [] str = "2" -> 2 [] str = "3" -> 3 [] str = "4" -> 4
      [] str = "01" -> 1 [] str = "02" -> 2 [] str = "9" -> 9
      [] OTHER -> 0

\* A faulty ResolveTarget: the position is not adjusted for 1-based indexing
ResolveTargetZeroBased(targetPlayerId) ==
    IF \E q \in Players : PlayerId(q) = targetPlayerId
    THEN CHOOSE q \in Players : PlayerId(q) = targetPlayerId
    ELSE IF ParseInt(targetPlayerId) # 0
            /\ ParseInt(targetPlayerId) >= 0
            /\ ParseInt(targetPlayerId) < Len(PlayerNames)
         THEN ParseInt(targetPlayerId) + 1
         ELSE 0

\* The target player of the steal (0 when none is found): by id, by id as a
\* string, then by 1-based index
ResolveTarget(targetPlayerId) ==
    IF \E q \in Players : PlayerId(q) = targetPlayerId
    THEN CHOOSE q \in Players : PlayerId(q) = targetPlayerId
    ELSE IF ParseInt(targetPlayerId) # 0
            /\ ParseInt(targetPlayerId) - 1 >= 0
            /\ ParseInt(targetPlayerId) - 1 < Len(PlayerNames)
         THEN ParseInt(targetPlayerId)
         ELSE 0

\* The kinds of availableResources: one entry per unit the target holds
StealableKinds(target) == {k \in Kinds : resources[target][k] > 0}

\* stolenResource is the kind drawn at random from availableResources
\* ("" stands for null: nothing is stolen)
MoveRobber(p, tileId, targetPlayerId) ==
    LET target == IF targetPlayerId # NoTarget THEN ResolveTarget(targetPlayerId) ELSE 0
        steals == /\ target # 0
                  /\ PlayerNames[p] # PlayerNames[target]
                  /\ StealableKinds(target) # {}
    IN  /\ tiles' = MoveRobberTiles(tileId)
        /\ robberPosition' = tileId
        /\ \E stolenResource \in (IF steals THEN StealableKinds(target) ELSE {""}) :
              /\ resources' = IF steals
                              THEN [resources EXCEPT ![target][stolenResource] = @ - 1,
                                                     ![p][stolenResource] = @ + 1]
                              ELSE resources
              /\ last' = [op |-> "move-robber", actor |-> p, tileId |-> tileId,
                          targetPlayerId |-> targetPlayerId,
                          stolenResource |-> stolenResource]
        /\ UNCHANGED <<gamePhase, settlements, cities, roads, points, discardPhase,
                       rmResources, heldAtCreation,
                       currentPlayerIndex, lobbyVars>>

-----------------------------------------------------------------------------
(* bank-trade *)

\* Default bank trade ratio
ratio == 4

\* The loop over Object.entries(tradingAway): the entries are <<kind, amount>>
\* in the order the client listed them. Deducts entry by entry and stops at
\* the first kind the player cannot afford (the throw), keeping what the
\* earlier entries deducted.
RECURSIVE TradeAway(_, _)
TradeAway(bundle, tradingAway) ==
    IF tradingAway = <<>>
    THEN [resources |-> bundle, thrown |-> FALSE]
    ELSE LET resource == Head(tradingAway)[1]
             amount == Head(tradingAway)[2]
             requiredAmount == amount * ratio
         IN  IF amount > 0
             THEN IF bundle[resource] < requiredAmount
                  THEN [resources |-> bundle, thrown |-> TRUE]
                  ELSE TradeAway([bundle EXCEPT ![resource] = @ - requiredAmount],
                                 Tail(tradingAway))
             ELSE TradeAway(bundle, Tail(tradingAway))

\* The loop over Object.entries(receiving)
RECURSIVE Receive(_, _)
Receive(bundle, receiving) ==
    IF receiving = <<>>
    THEN bundle
    ELSE LET resource == Head(receiving)[1]
             amount == Head(receiving)[2]
         IN  Receive(IF amount > 0 THEN [bundle EXCEPT ![resource] = @ + amount] ELSE bundle,
                     Tail(receiving))

BankTrade(p, tradingAway, receiving) ==
    LET away == TradeAway(resources[p], tradingAway)
    IN  /\ resources' = [resources EXCEPT ![p] =
                            IF away.thrown THEN away.resources
                            ELSE Receive(away.resources, receiving)]
        /\ last' = [op |-> "bank-trade", actor |-> p, tradingAway |-> tradingAway,
                    receiving |-> receiving, error |-> away.thrown]
        /\ UNCHANGED <<tiles, robberPosition, gamePhase, settlements, cities, roads,
                       points, discardPhase, rmResources, heldAtCreation,
                       currentPlayerIndex, lobbyVars>>

-----------------------------------------------------------------------------
(* start-discard-phase, complete-discard *)

\* Sum of the amounts of a list of <<kind, amount>> entries
EntriesTotal(entries) == SumTo([i \in DOMAIN entries |-> entries[i][2]], Len(entries))

BundleTotal(bundle) == SumTo([i \in DOMAIN KindOrder |-> bundle[KindOrder[i]]], Len(KindOrder))

StartDiscardPhase(p, playersNeedingToDiscard) ==
    /\ discardPhase' = IF discardPhase = NoDiscard
                       THEN [active |-> TRUE,
                             playersNeedingToDiscard |-> playersNeedingToDiscard,
                             playersCompleted |-> <<>>,
                             rollerName |-> PlayerNames[p]]
                       ELSE discardPhase
    /\ last' = [op |-> "start-discard-phase", actor |-> p,
                playersNeedingToDiscard |-> playersNeedingToDiscard]
    /\ heldAtCreation' = IF discardPhase = NoDiscard
                         THEN [q \in Players |-> BundleTotal(resources[q])]
                         ELSE heldAtCreation
    /\ UNCHANGED <<tiles, robberPosition, gamePhase, resources, settlements, cities,
                   roads, points, rmResources, currentPlayerIndex, lobbyVars>>

\* A faulty ExpectedDiscard: half the hand rounded up
ExpectedDiscardRoundedUp(bundle) == (BundleTotal(bundle) + 1) \div 2

\* expectedDiscard = Math.floor(totalResources / 2), of the hand as it is
\* when complete-discard runs
ExpectedDiscard(bundle) == BundleTotal(bundle) \div 2

\* The discard loop: subtract, then clamp a negative count to 0
RECURSIVE Discard(_, _)
Discard(bundle, discardedResources) ==
    IF discardedResources = <<>>
    THEN bundle
    ELSE LET resource == Head(discardedResources)[1]
             amount == Head(discardedResources)[2]
             left == bundle[resource] - amount
         IN  Discard([bundle EXCEPT ![resource] = IF left < 0 THEN 0 ELSE left],
                     Tail(discardedResources))

\* complete-discard returns early without a discard phase; the outcome is
\* "not-enough", "wrong-amount" or "ok"
CompleteDiscard(p, discardedResources) ==
    /\ discardPhase # NoDiscard
    /\ LET notEnough == \E i \in DOMAIN discardedResources :
                            resources[p][discardedResources[i][1]] < discardedResources[i][2]
           expectedDiscard == ExpectedDiscard(resources[p])
           actualDiscard == EntriesTotal(discardedResources)
           outcome == IF notEnough THEN "not-enough"
                      ELSE IF actualDiscard # expectedDiscard THEN "wrong-amount"
                      ELSE "ok"
           completed == IF \E i \in DOMAIN discardPhase.playersCompleted :
                               discardPhase.playersCompleted[i] = PlayerNames[p]
                        THEN discardPhase.playersCompleted
                        ELSE Append(discardPhase.playersCompleted, PlayerNames[p])
           allPlayersCompleted == \A i \in DOMAIN discardPhase.playersNeedingToDiscard :
                                      \E j \in DOMAIN completed :
                                          completed[j] = discardPhase.playersNeedingToDiscard[i]
       IN  /\ IF outcome = "ok"
              THEN /\ resources' = [resources EXCEPT ![p] = Discard(@, discardedResources)]
                   /\ discardPhase' = IF allPlayersCompleted THEN NoDiscard
                                      ELSE [discardPhase EXCEPT !.playersCompleted = completed]
              ELSE UNCHANGED <<resources, discardPhase>>
           /\ last' = [op |-> "complete-discard", actor |-> p,
                       discardedResources |-> discardedResources, outcome |-> outcome]
           /\ heldAtCreation' = IF outcome = "ok" /\ allPlayersCompleted
                                THEN [q \in Players |-> 0]
                                ELSE heldAtCreation
    /\ UNCHANGED <<tiles, robberPosition, gamePhase, settlements, cities, roads,
                   points, rmResources, currentPlayerIndex, lobbyVars>>

-----------------------------------------------------------------------------
(* end-turn: a broadcast, no state of the session changes *)

EndTurn(p) ==
    /\ last' = [op |-> "end-turn", actor |-> p]
    /\ UNCHANGED <<gameVars, rmResources, heldAtCreation, lobbyVars>>

-----------------------------------------------------------------------------
(* ResourceManager: the ledger class *)

\* A bundle passed to the ledger names some kinds: a function on a subset of Kinds
Named(bundle) == DOMAIN bundle

initializePlayer(playerId) ==
    /\ rmResources' = [q \in DOMAIN rmResources \cup {playerId} |->
                          IF q = playerId THEN ZeroBundle ELSE rmResources[q]]
    /\ last' = [op |-> "initializePlayer", playerId |-> playerId]
    /\ UNCHANGED <<gameVars, heldAtCreation, lobbyVars>>

\* A faulty hasEnoughResources: some() in place of every()
hasEnoughResourcesSome(playerId, bundle) ==
    /\ playerId \in DOMAIN rmResources
    /\ \E k \in Named(bundle) : rmResources[playerId][k] >= bundle[k]

\* (currentResources[resource] || 0) >= amount for every entry
hasEnoughResources(playerId, bundle) ==
    /\ playerId \in DOMAIN rmResources
    /\ \A k \in Named(bundle) : rmResources[playerId][k] >= bundle[k]

rmAddResources(playerId, bundle) ==
    LET known == playerId \in DOMAIN rmResources
    IN  /\ rmResources' = IF known
                          THEN [rmResources EXCEPT ![playerId] =
                                   [k \in Kinds |-> IF k \in Named(bundle)
                                                    THEN @[k] + bundle[k] ELSE @[k]]]
                          ELSE rmResources
        /\ last' = [op |-> "addResources", playerId |-> playerId, bundle |-> bundle,
                    returned |-> known]
        /\ UNCHANGED <<gameVars, heldAtCreation, lobbyVars>>

rmDeductResources(playerId, bundle) ==
    LET enough == hasEnoughResources(playerId, bundle)
    IN  /\ rmResources' = IF enough
                          THEN [rmResources EXCEPT ![playerId] =
                                   [k \in Kinds |-> IF k \in Named(bundle)
                                                    THEN @[k] - bundle[k] ELSE @[k]]]
                          ELSE rmResources
        /\ last' = [op |-> "deductResources", playerId |-> playerId, bundle |-> bundle,
                    returned |-> enough]
        /\ UNCHANGED <<gameVars, heldAtCreation, lobbyVars>>

\* Only the named kinds of a cost are entries of BUILDING_COSTS[buildingType]
CostEntries(buildingType) ==
    LET cost == BUILDING_COSTS[buildingType]
    IN  [k \in {x \in Kinds : cost[x] # 0} |-> cost[k]]

canAffordBuilding(playerId, buildingType) ==
    /\ last' = [op |-> "canAffordBuilding", playerId |-> playerId,
                buildingType |-> buildingType,
                returned |-> hasEnoughResources(playerId, CostEntries(buildingType))]
    /\ UNCHANGED <<gameVars, rmResources, heldAtCreation, lobbyVars>>

-----------------------------------------------------------------------------
(* Bounds and inputs shared by the specifications *)

\* Player p holds a settlement at vertex v
HoldsSettlementAt(p, v) == \E i \in DOMAIN settlements[p] : settlements[p][i].vertexId = v


\* Number of settlements, cities and roads of all players together
Pieces == SumTo([p \in Players |-> Len(settlements[p]) + Len(cities[p]) + Len(roads[p])],
               Len(PlayerNames))

Vertices == {"v1", "v2"}
Edges == {"e1"}
PhaseInputs == {"setup", "PLAY"}

-----------------------------------------------------------------------------
(* SpecBuild: the building handlers and the phase update, any interleaving  *)
(* of both players, until BuildMaxPieces pieces are on the board.           *)

BuildMaxPieces == 2

BuildAdjacency == {<<>>, <<"tile-0">>, <<"tile-1", "tile-18">>}

NextBuild ==
    \/ \E p \in Players, v \in Vertices, adj \in BuildAdjacency :
          Pieces < BuildMaxPieces /\ BuildSettlement(p, v, adj)
    \/ \E p \in Players, v \in Vertices, adj \in BuildAdjacency :
          Pieces < BuildMaxPieces /\ BuildCity(p, v, adj)
    \/ \E p \in Players, e \in Edges, ph \in PhaseInputs :
          Pieces < BuildMaxPieces /\ BuildRoad(p, e, ph)
    \/ \E ph \in PhaseInputs : GamePhaseUpdate(ph)

SpecBuild == Init /\ [][NextBuild]_vars

-----------------------------------------------------------------------------
(* SpecLimits: player 1 builds on one vertex and one edge, up to one piece  *)
(* more than BUILDING_RULES allows of each kind.                            *)

NextLimits ==
    \/ Len(settlements[1]) <= MaxSettlementsPerPlayer /\ BuildSettlement(1, "v1", <<>>)
    \/ Len(cities[1]) <= MaxCitiesPerPlayer /\ BuildCity(1, "v1", <<>>)
    \/ Len(roads[1]) <= MaxRoadsPerPlayer /\ BuildRoad(1, "e1", "setup")

SpecLimits == InitFirstBoard /\ [][NextLimits]_vars

-----------------------------------------------------------------------------
(* SpecEconomy: production, bank trade and robber on a board with at most   *)
(* EconomyMaxPieces settlements, every resource count kept at or below      *)
(* EconomyMaxRes.                                                           *)

EconomyMaxPieces == 1
EconomyMaxRes == 4

EconomyAdjacency == {<<"tile-0">>}
\* Dice totals rolled: the token of tile-0 on the first board, a seven, and
\* a token of a tile no settlement is adjacent to
EconomyTotals == {2, 7, 12}
TileInputs == {"tile-0", "tile-99"}
TargetInputs == {NoTarget, "2", "02"}
TradeAwayInputs == {<<>>, <<<<"wood", 1>>>>, <<<<"wood", 1>>, <<"brick", 1>>>>}
ReceivingInputs == {<<>>, <<<<"brick", 1>>>>}

WithinEconomyMaxRes == \A q \in Players, k \in Kinds : resources'[q][k] <= EconomyMaxRes

NextEconomy ==
    \/ \E p \in Players, adj \in EconomyAdjacency :
          Pieces < EconomyMaxPieces /\ BuildSettlement(p, "v1", adj) /\ WithinEconomyMaxRes
    \/ \E p \in Players, total \in EconomyTotals : RollDice(p, total) /\ WithinEconomyMaxRes
    \/ \E p \in Players, t \in TileInputs, target \in TargetInputs :
          MoveRobber(p, t, target) /\ WithinEconomyMaxRes
    \/ \E p \in Players, away \in TradeAwayInputs, recv \in ReceivingInputs :
          BankTrade(p, away, recv) /\ WithinEconomyMaxRes

SpecEconomy == Init /\ [][NextEconomy]_vars

-----------------------------------------------------------------------------
(* SpecLedger: the ResourceManager on its own. Bundles name any subset of   *)
(* LedgerKinds with amounts up to LedgerMaxAmount; holdings stay at or      *)
(* below LedgerMaxRes.                                                      *)

LedgerMaxAmount == 2
LedgerMaxRes == 2

LedgerPlayerIds == {"p1", "p2"}
LedgerKinds == {"wood", "ore"}
LedgerBundles == UNION {[named -> 0..LedgerMaxAmount] : named \in SUBSET LedgerKinds}
LedgerBuildingTypes == {"SETTLEMENT", "CITY", "ROAD"}

WithinLedgerMaxRes ==
    \A q \in DOMAIN rmResources', k \in Kinds : rmResources'[q][k] <= LedgerMaxRes

NextLedger ==
    \/ \E id \in LedgerPlayerIds : initializePlayer(id)
    \/ \E id \in LedgerPlayerIds, bundle \in LedgerBundles :
          rmAddResources(id, bundle) /\ WithinLedgerMaxRes
    \/ \E id \in LedgerPlayerIds, bundle \in LedgerBundles : rmDeductResources(id, bundle)
    \/ \E id \in LedgerPlayerIds, type \in LedgerBuildingTypes : canAffordBuilding(id, type)

SpecLedger == InitFirstBoard /\ [][NextLedger]_vars

-----------------------------------------------------------------------------
(* SpecDiscard: the discard phase. Player A settles next to tile-0, which  *)
(* pays wood on a roll of 2; hands stay at or below DiscardMaxRes. A        *)
(* discard names up to half of DiscardMaxRes wood, or one wood and one wool.*)

DiscardMaxPieces == 1
DiscardMaxRes == 9

DiscardBuilders == {1}
DiscardTotals == {2, 7}
NeedingInputs == {<<>>, <<"A">>, <<"A", "B">>}
DiscardInputs ==
    {<<<<"wood", n>>>> : n \in 0..(DiscardMaxRes \div 2)}
        \cup {<<<<"wood", 1>>, <<"wool", 1>>>>}

WithinDiscardMaxRes == \A q \in Players, k \in Kinds : resources'[q][k] <= DiscardMaxRes

NextDiscard ==
    \/ \E p \in DiscardBuilders :
          Pieces < DiscardMaxPieces /\ BuildSettlement(p, "v1", <<"tile-0">>) /\ WithinDiscardMaxRes
    \/ \E p \in Players, total \in DiscardTotals : RollDice(p, total) /\ WithinDiscardMaxRes
    \/ \E p \in Players, need \in NeedingInputs : StartDiscardPhase(p, need)
    \/ \E p \in Players, d \in DiscardInputs : CompleteDiscard(p, d)
    \/ \E p \in Players : EndTurn(p)

SpecDiscard == InitFirstBoard /\ [][NextDiscard]_vars

\* Player q is named in game.discardPhase and has not completed
Obligated(q) ==
    /\ discardPhase # NoDiscard
    /\ \E i \in DOMAIN discardPhase.playersNeedingToDiscard :
          discardPhase.playersNeedingToDiscard[i] = PlayerNames[q]
    /\ \A i \in DOMAIN discardPhase.playersCompleted :
          discardPhase.playersCompleted[i] # PlayerNames[q]

\* An obligated player sends a complete-discard the handler accepts
ValidDiscardOf(q) ==
    /\ Obligated(q)
    /\ \E d \in DiscardInputs : CompleteDiscard(q, d) /\ last'.outcome = "ok"

\* SpecDiscardFair: SpecDiscard where every obligated player eventually
\* sends a valid discard
SpecDiscardFair == SpecDiscard /\ \A q \in Players : WF_vars(ValidDiscardOf(q))

-----------------------------------------------------------------------------
(* SpecProduction: settlements and cities next to tiles that share a token, *)
(* dice rolls and robber moves without a steal, on the first board. Tiles   *)
(* 1 and 2 are forests with token 3, tile 3 a forest and tile 4 a pasture   *)
(* with token 4, tile 18 the desert.                                        *)

ProductionMaxPieces == 1
ProductionMaxRes == 4

ProductionAdjacency == {<<"tile-3", "tile-4">>, <<"tile-1", "tile-2", "tile-3">>}
ProductionTotals == {3, 4, 7}
ProductionRobberTiles == {"tile-3", "tile-18"}

WithinProductionMaxRes == \A q \in Players, k \in Kinds : resources'[q][k] <= ProductionMaxRes

NextProduction ==
    \/ \E p \in Players, adj \in ProductionAdjacency :
          Pieces < ProductionMaxPieces /\ BuildSettlement(p, "v1", adj) /\ WithinProductionMaxRes
    \/ \E p \in Players :
          HoldsSettlementAt(p, "v1") /\ BuildCity(p, "v1", <<>>)
    \/ \E p \in Players, total \in ProductionTotals : RollDice(p, total) /\ WithinProductionMaxRes
    \/ \E p \in Players, t \in ProductionRobberTiles : MoveRobber(p, t, NoTarget)

SpecProduction == InitFirstBoard /\ [][NextProduction]_vars

-----------------------------------------------------------------------------
(* SpecSettlementCost: settlements placed in setup and in play on the first *)
(* board. Tile 12 is a hill with token 9; tiles 0, 4 and 8 are a forest, a  *)
(* pasture and a field, which pay the second settlement of the setup.       *)

CostMaxPieces == 3
CostMaxRes == 2

CostAdjacency == {<<"tile-12">>, <<"tile-0", "tile-4", "tile-8">>}
CostTotals == {9}

WithinCostMaxRes == \A q \in Players, k \in Kinds : resources'[q][k] <= CostMaxRes

NextSettlementCost ==
    \/ \E p \in Players, v \in Vertices, adj \in CostAdjacency :
          Pieces < CostMaxPieces /\ BuildSettlement(p, v, adj) /\ WithinCostMaxRes
    \/ \E p \in Players, total \in CostTotals : RollDice(p, total) /\ WithinCostMaxRes
    \/ \E ph \in PhaseInputs : GamePhaseUpdate(ph)

SpecSettlementCost == InitFirstBoard /\ [][NextSettlementCost]_vars

-----------------------------------------------------------------------------
(* SpecSteal: the robber and the steal on the first board. One settlement   *)
(* next to tile-0 earns wood on a roll of 2; the robber is sent to tile-0,  *)
(* to the desert or to no tile of the board, with no victim or with a       *)
(* victim named by id, by position or by an id no player has.               *)

StealMaxPieces == 1
StealMaxRes == 3

StealTotals == {2, 7}
StealTiles == {"tile-0", "tile-18", "tile-99"}
StealTargets == {NoTarget, "1", "2", "02", "9"}

WithinStealMaxRes == \A q \in Players, k \in Kinds : resources'[q][k] <= StealMaxRes

NextSteal ==
    \/ \E p \in Players :
          Pieces < StealMaxPieces /\ BuildSettlement(p, "v1", <<"tile-0">>) /\ WithinStealMaxRes
    \/ \E p \in Players, total \in StealTotals : RollDice(p, total) /\ WithinStealMaxRes
    \/ \E p \in Players, t \in StealTiles, target \in StealTargets :
          MoveRobber(p, t, target) /\ WithinStealMaxRes

SpecSteal == InitFirstBoard /\ [][NextSteal]_vars

-----------------------------------------------------------------------------
(* The lobby: sessions created, joined, started and left. Here every        *)
(* session of the games map carries its gameState as one record; the        *)
(* variables of gameVars, which follow one started session field by field,  *)
(* are left alone.                                                          *)

\* games.get(gameId) and playerSockets.get(socketId) of a key that is absent
Stored(gameId) == gameId \in DOMAIN games

Recorded(c) == c \in DOMAIN playerSockets

\* gameState: null until start-game
NoGameState == [gamePhase |-> "null"]

\* The socket ids of game.players
SocketsOf(game) == {game.players[i].socketId : i \in DOMAIN game.players}

\* The names of game.players
NamesOf(game) == {game.players[i].name : i \in DOMAIN game.players}

\* games.delete(gameId)
WithoutGame(gameId) == [g \in DOMAIN games \ {gameId} |-> games[g]]

\* game.players.filter(p => p.socketId !== socket.id)
RECURSIVE PlayersNotOf(_, _)
PlayersNotOf(players, c) ==
    IF players = <<>> THEN <<>>
    ELSE IF Head(players).socketId = c THEN PlayersNotOf(Tail(players), c)
    ELSE <<Head(players)>> \o PlayersNotOf(Tail(players), c)

\* generateGameId returns an id that no stored game and no player record
\* carries (the draw of an id already in use is not followed)
Unused(gameId) ==
    /\ ~Stored(gameId)
    /\ \A c \in DOMAIN playerSockets : playerSockets[c].gameId # gameId

\* The state of the process when it starts to listen: no game, no player
\* record, no session followed
InitLobby ==
    /\ games = << >>
    /\ playerSockets = << >>
    /\ tiles = << >>
    /\ robberPosition = 0 - 1
    /\ gamePhase = "null"
    /\ currentPlayerIndex = 0
    /\ resources = << >>
    /\ settlements = << >>
    /\ cities = << >>
    /\ roads = << >>
    /\ points = << >>
    /\ discardPhase = NoDiscard
    /\ rmResources = << >>
    /\ heldAtCreation = << >>
    /\ last = [op |-> "listen"]

\* create-game, gameId being the id generateGameId returns: the sender's
\* player record is overwritten, whatever it was
CreateGame(c, playerName, gameId) ==
    /\ Unused(gameId)
    /\    /\ games' = (gameId :> [id         |-> gameId,
                                  host       |-> playerName,
                                  players    |-> <<[name |-> playerName, socketId |-> c]>>,
                                  maxPlayers |-> 4,
                                  status     |-> "waiting",
                                  gameState  |-> NoGameState]) @@ games
          /\ playerSockets' = (c :> [playerName |-> playerName, gameId |-> gameId,
                                     isHost |-> TRUE]) @@ playerSockets
          /\ last' = [op |-> "create-game", socketId |-> c, gameId |-> gameId,
                      playerName |-> playerName]
    /\ UNCHANGED <<gameVars, rmResources, heldAtCreation>>

\* A faulty JoinGame: a started game is joined like a waiting one
JoinGameWhenStarted(c, gameId, playerName) ==
    LET outcome == IF ~Stored(gameId) THEN "not-found"
                   ELSE IF Len(games[gameId].players) >= games[gameId].maxPlayers THEN "full"
                   ELSE IF playerName \in NamesOf(games[gameId]) THEN "name-taken"
                   ELSE "joined"
    IN  /\ IF outcome = "joined"
           THEN /\ games' = [games EXCEPT ![gameId].players =
                                Append(@, [name |-> playerName, socketId |-> c])]
                /\ playerSockets' = (c :> [playerName |-> playerName, gameId |-> gameId,
                                           isHost |-> FALSE]) @@ playerSockets
           ELSE UNCHANGED <<games, playerSockets>>
        /\ last' = [op |-> "join-game", socketId |-> c, gameId |-> gameId,
                    playerName |-> playerName, outcome |-> outcome]
        /\ UNCHANGED <<gameVars, rmResources, heldAtCreation>>

\* join-game: refused when the game is absent, started, full or has the
\* name; the sender's player record is overwritten otherwise
JoinGame(c, gameId, playerName) ==
    LET outcome == IF ~Stored(gameId) THEN "not-found"
                   ELSE IF games[gameId].status # "waiting" THEN "started"
                   ELSE IF Len(games[gameId].players) >= games[gameId].maxPlayers THEN "full"
                   ELSE IF playerName \in NamesOf(games[gameId]) THEN "name-taken"
                   ELSE "joined"
    IN  /\ IF outcome = "joined"
           THEN /\ games' = [games EXCEPT ![gameId].players =
                                Append(@, [name |-> playerName, socketId |-> c])]
                /\ playerSockets' = (c :> [playerName |-> playerName, gameId |-> gameId,
                                           isHost |-> FALSE]) @@ playerSockets
           ELSE UNCHANGED <<games, playerSockets>>
        /\ last' = [op |-> "join-game", socketId |-> c, gameId |-> gameId,
                    playerName |-> playerName, outcome |-> outcome]
        /\ UNCHANGED <<gameVars, rmResources, heldAtCreation>>

\* The gameState start-game stores: the generated board and, from
\* initializeGameStateTracking, the players, the current player and the phase
NewGameState(players, tileDraws, numberDraws) ==
    LET newTiles == GenerateTiles(shuffle(tileTypes, tileDraws),
                                  shuffle(numberTokens, numberDraws))
    IN  [rowTiles           |-> rowTiles(newTiles),
         robberPosition     |-> InitialRobberPosition(newTiles),
         players            |-> [i \in DOMAIN players |->
                                    [id          |-> PlayerId(i),
                                     name        |-> players[i].name,
                                     resources   |-> ZeroBundle,
                                     settlements |-> <<>>,
                                     cities      |-> <<>>,
                                     roads       |-> <<>>,
                                     points      |-> 0]],
         currentPlayerIndex |-> 0,
         gamePhase          |-> "setup"]

\* start-game, for any session of the lobby
StartGameInLobby(c, tileDraws, numberDraws) ==
    LET outcome == IF ~Recorded(c) THEN "not-host"
                   ELSE IF ~playerSockets[c].isHost THEN "not-host"
                   ELSE IF ~Stored(playerSockets[c].gameId) THEN "not-found"
                   ELSE IF Len(games[playerSockets[c].gameId].players) < 2 THEN "too-few"
                   ELSE "started"
    IN  /\ IF outcome = "started"
           THEN games' = [games EXCEPT
                            ![playerSockets[c].gameId].status = "playing",
                            ![playerSockets[c].gameId].gameState =
                                NewGameState(games[playerSockets[c].gameId].players,
                                             tileDraws, numberDraws)]
           ELSE UNCHANGED games
        /\ last' = [op |-> "start-game", socketId |-> c, outcome |-> outcome]
        /\ UNCHANGED <<playerSockets, gameVars, rmResources, heldAtCreation>>

\* game-phase-update, for any session of the lobby: the game is the one the
\* message names. On a game not yet started the write to gameState, which
\* is null, throws and nothing is written.
GamePhaseUpdateInLobby(c, gameId, phase) ==
    LET outcome == IF ~Stored(gameId) THEN "not-found"
                   ELSE IF games[gameId].gameState = NoGameState THEN "throws"
                   ELSE "updated"
    IN  /\ IF outcome = "updated"
           THEN games' = [games EXCEPT ![gameId].gameState.gamePhase = phase]
           ELSE UNCHANGED games
        /\ last' = [op |-> "game-phase-update", socketId |-> c, gameId |-> gameId,
                    gamePhase |-> phase, outcome |-> outcome]
        /\ UNCHANGED <<playerSockets, gameVars, rmResources, heldAtCreation>>

\* build-road, for any session of the lobby: the sender's record names the
\* game and the player; the cost is taken under the marker 'PLAY'
BuildRoadInLobby(c, edgeId, phaseMarker) ==
    LET known == /\ Recorded(c)
                 /\ Stored(playerSockets[c].gameId)
                 /\ games[playerSockets[c].gameId].status = "playing"
        gameId == playerSockets[c].gameId
        found == {i \in DOMAIN games[gameId].gameState.players :
                     games[gameId].gameState.players[i].name = playerSockets[c].playerName}
    IN  /\ IF known /\ found # {}
           THEN games' = [games EXCEPT ![gameId].gameState.players[First(found)] =
                            [@ EXCEPT !.roads = Append(@, [edgeId |-> edgeId]),
                                      !.resources = IF phaseMarker = "PLAY"
                                                    THEN deductResources(@, "ROAD")
                                                    ELSE @]]
           ELSE UNCHANGED games
        /\ last' = [op |-> "build-road", socketId |-> c, edgeId |-> edgeId,
                    gamePhase |-> phaseMarker,
                    outcome |-> IF ~known THEN "ignored"
                                ELSE IF found = {} THEN "no-player" ELSE "built"]
        /\ UNCHANGED <<playerSockets, gameVars, rmResources, heldAtCreation>>

\* handlePlayerLeave, called by leave-game and by disconnect
handlePlayerLeave(c) ==
    LET known == Recorded(c) /\ Stored(playerSockets[c].gameId)
        gameId == playerSockets[c].gameId
        remaining == PlayersNotOf(games[gameId].players, c)
    IN  /\ IF known
           THEN /\ games' = IF Len(remaining) = 0 \/ playerSockets[c].isHost
                            THEN WithoutGame(gameId)
                            ELSE [games EXCEPT ![gameId].players = remaining]
                /\ playerSockets' = [d \in DOMAIN playerSockets \ {c} |-> playerSockets[d]]
           ELSE UNCHANGED <<games, playerSockets>>
        /\ last' = [op |-> "leave", socketId |-> c,
                    outcome |-> IF known THEN "left" ELSE "ignored"]
        /\ UNCHANGED <<gameVars, rmResources, heldAtCreation>>

-----------------------------------------------------------------------------
(* SpecLobby: three connections, three player names, one game id at a     *)
(* time, one board, one road.                                               *)

LobbyMaxRoads == 1

Connections == {"c1", "c2", "c3"}
LobbyNames == {"A", "B", "X"}
LobbyGameIds == {"G1"}

\* The roads of the players of a stored session
RoadsIn(gameId) ==
    IF games[gameId].gameState = NoGameState THEN 0
    ELSE SumTo([j \in DOMAIN games[gameId].gameState.players |->
                   Len(games[gameId].gameState.players[j].roads)],
               Len(games[gameId].gameState.players))

NextLobby ==
    \/ \E c \in Connections, name \in LobbyNames, g \in LobbyGameIds : CreateGame(c, name, g)
    \/ \E c \in Connections, g \in LobbyGameIds, name \in LobbyNames : JoinGame(c, g, name)
    \/ \E c \in Connections : StartGameInLobby(c, NoSwap(19), NoSwap(18))
    \/ \E c \in Connections, g \in LobbyGameIds, ph \in PhaseInputs :
          GamePhaseUpdateInLobby(c, g, ph)
    \/ \E c \in Connections :
          /\ \A g \in DOMAIN games : RoadsIn(g) < LobbyMaxRoads
          /\ BuildRoadInLobby(c, "e1", "setup")
    \/ \E c \in Connections : handlePlayerLeave(c)

SpecLobby == InitLobby /\ [][NextLobby]_vars

-----------------------------------------------------------------------------
(* SpecSessions: two connections and two game ids; the session G1 is       *)
(* filled up under four player names, G2 is joined under one; one board.    *)

SessionConnections == {"c1", "c2"}
SessionGameIds == {"G1", "G2"}
SessionNames == {"A", "B", "X", "Y"}

NextSessions ==
    \/ \E c \in SessionConnections, g \in SessionGameIds : CreateGame(c, "A", g)
    \/ \E c \in SessionConnections, name \in SessionNames : JoinGame(c, "G1", name)
    \/ \E c \in SessionConnections : JoinGame(c, "G2", "B")
    \/ \E c \in SessionConnections : StartGameInLobby(c, NoSwap(19), NoSwap(18))
    \/ \E c \in SessionConnections : handlePlayerLeave(c)

SpecSessions == InitLobby /\ [][NextSessions]_vars

-----------------------------------------------------------------------------
(* SpecSetup: the placements of the setup on the first board, by player A.  *)
(* Tile 0 is a forest, tile 12 a hill, tile 18 the desert; the robber is    *)
(* sent to tile 0 or back to the desert; a settlement is upgraded in place. *)

SetupMaxPieces == 4

SetupBuilders == {1}
SetupAdjacency == {<<>>, <<"tile-0", "tile-12", "tile-18">>}
SetupRobberTiles == {"tile-0", "tile-18"}

NextSetup ==
    \/ \E p \in SetupBuilders, v \in Vertices, adj \in SetupAdjacency :
          Pieces < SetupMaxPieces /\ BuildSettlement(p, v, adj)
    \/ \E p \in SetupBuilders, v \in Vertices :
          /\ Pieces < SetupMaxPieces
          /\ Len(cities[p]) = 0
          /\ HoldsSettlementAt(p, v)
          /\ BuildCity(p, v, <<>>)
    \/ \E p \in Players, t \in SetupRobberTiles : MoveRobber(p, t, NoTarget)
    \/ \E ph \in PhaseInputs : GamePhaseUpdate(ph)

SpecSetup == InitFirstBoard /\ [][NextSetup]_vars

-----------------------------------------------------------------------------
(* SpecStart: start-game sent again by the host A or by B, on boards where  *)
(* the desert is drawn to each place and one number token is moved;         *)
(* between the starts player A places a settlement or a road,               *)
(* the robber is sent to tile 0 and the phase is set.                       *)

StartMaxPieces == 1

\* The draws of the starts: no swap but for the last position (once the last
\* two) of the tile list and the last position of the number list; or the
\* mirror
StartTileDraws ==
    {[i \in 1..19 |-> IF i = 19 THEN b ELSE i] : b \in 1..19}
    \cup {[i \in 1..19 |-> IF i = 19 THEN 10 ELSE IF i = 18 THEN 1 ELSE i], Mirror(19)}

StartNumberDraws ==
    {[i \in 1..18 |-> IF i = 18 THEN b ELSE i] : b \in {1, 18}}

NextStart ==
    \/ \E td \in StartTileDraws, nd \in StartNumberDraws : StartGame(1, td, nd)
    \/ StartGame(2, NoSwap(19), NoSwap(18))
    \/ Pieces < StartMaxPieces /\ BuildSettlement(1, "v1", <<"tile-0">>)
    \/ Pieces < StartMaxPieces /\ BuildRoad(1, "e1", "setup")
    \/ \E p \in Players : MoveRobber(p, "tile-0", NoTarget)
    \/ \E ph \in PhaseInputs : GamePhaseUpdate(ph)

SpecStart == InitFirstBoard /\ [][NextStart]_vars

-----------------------------------------------------------------------------
(* Properties *)

\* C1: every player's count of each of the five resource kinds is >= 0 in
\* every reachable state (an action that would drive a count below zero is
\* rejected).
C1_ResourcesNeverNegative ==
    \A p \in Players, k \in Kinds : resources[p][k] >= 0

\* C2: ResourceManager.deductResources is all-or-nothing. It returns true
\* exactly when the player has a ledger and every named amount is at most
\* the holding; then every named kind drops by its amount and nothing else
\* changes; otherwise no count of any player changes.
C2_LedgerDeductAllOrNothing ==
    [][last'.op = "deductResources" =>
        LET id == last'.playerId
            bundle == last'.bundle
            affordable == /\ id \in DOMAIN rmResources
                          /\ \A k \in DOMAIN bundle : bundle[k] <= rmResources[id][k]
        IN  /\ last'.returned = affordable
            /\ DOMAIN rmResources' = DOMAIN rmResources
            /\ \A q \in DOMAIN rmResources, k \in Kinds :
                  rmResources'[q][k] =
                      IF affordable /\ q = id /\ k \in DOMAIN bundle
                      THEN rmResources[q][k] - bundle[k]
                      ELSE rmResources[q][k]]_vars

\* C2 witness: a deduction was refused although the player could afford one
\* of the named kinds, a positive amount of it
C2_RefusedPartlyAffordable ==
    /\ last.op = "deductResources"
    /\ ~last.returned
    /\ last.playerId \in DOMAIN rmResources
    /\ \E k \in DOMAIN last.bundle :
          last.bundle[k] > 0 /\ last.bundle[k] <= rmResources[last.playerId][k]

\* The player cannot afford 4 x the amount of some kind of the giving bundle
CannotAffordTrade(p, tradingAway) ==
    \E i \in DOMAIN tradingAway :
        /\ tradingAway[i][2] > 0
        /\ resources[p][tradingAway[i][1]] < 4 * tradingAway[i][2]

\* C3: a bank trade whose giving bundle names a kind the player cannot
\* afford 4 x of fails and leaves every resource count unchanged.
C3_UnaffordableTradeChangesNothing ==
    [][(last'.op = "bank-trade" /\ CannotAffordTrade(last'.actor, last'.tradingAway)) =>
        (last'.error /\ resources' = resources)]_vars

\* What a successful trade deducts: 4 per unit of the giving bundle
TradeDeducted(tradingAway) ==
    4 * SumTo([i \in DOMAIN tradingAway |->
                  IF tradingAway[i][2] > 0 THEN tradingAway[i][2] ELSE 0], Len(tradingAway))

\* C4: after a successful bank trade the units credited are at most one
\* quarter of the units deducted (so an empty or all-zero giving bundle
\* credits nothing).
C4_TradeRatioFourToOne ==
    [][(last'.op = "bank-trade" /\ ~last'.error) =>
        LET p == last'.actor
            deducted == TradeDeducted(last'.tradingAway)
            credited == BundleTotal(resources'[p]) - BundleTotal(resources[p]) + deducted
        IN  4 * credited <= deducted]_vars

\* C5: each player's points equal settlements + 2 x cities in every
\* reachable state.
C5_PointsMatchBuildings ==
    \A p \in Players : points[p] = Len(settlements[p]) + 2 * Len(cities[p])

\* C5 witness: a player who has just built a city also holds a settlement
C5_CityBesideSettlement ==
    /\ last.op = "build-city"
    /\ Len(cities[last.actor]) = 1
    /\ Len(settlements[last.actor]) = 1
    /\ points[last.actor] = 3

\* C6: exactly one tile of the board has the robber flag set.
C6_ExactlyOneRobber ==
    Cardinality({j \in DOMAIN tiles : tiles[j].hasRobber}) = 1

\* C7: each player holds at most 5 settlements, 4 cities and 15 roads.
C7_WithinMaxPerPlayer ==
    \A p \in Players :
        /\ Len(settlements[p]) <= MaxSettlementsPerPlayer
        /\ Len(cities[p]) <= MaxCitiesPerPlayer
        /\ Len(roads[p]) <= MaxRoadsPerPlayer

\* Settlements and cities of all players on vertex v
BuildingsAt(v) ==
    SumTo([p \in Players |->
              Cardinality({i \in DOMAIN settlements[p] : settlements[p][i].vertexId = v})
              + Cardinality({i \in DOMAIN cities[p] : cities[p][i].vertexId = v})],
          Len(PlayerNames))

\* C8: each vertex holds at most one building, counted over all players'
\* settlements and cities.
C8_OneBuildingPerVertex ==
    \A v \in Vertices : BuildingsAt(v) <= 1

\* C9: build-city on a vertex where the actor holds no settlement changes no
\* settlements, cities, points or resources of any player.
C9_CityWithoutSettlementChangesNothing ==
    [][(last'.op = "build-city" /\ ~HoldsSettlementAt(last'.actor, last'.vertexId)) =>
        UNCHANGED <<settlements, cities, points, resources>>]_vars

\* build-city of player p at vertex v removed p's i-th settlement, which is
\* at v, and appended one city at v with the given adjacent tiles; no other
\* player's settlements or cities changed
UpgradeTook(p, v, i, adjacentTiles) ==
    /\ settlements[p][i].vertexId = v
    /\ settlements'[p] = RemoveAt(settlements[p], i)
    /\ cities'[p] = Append(cities[p], [vertexId |-> v, adjacentTiles |-> adjacentTiles])
    /\ \A q \in Players \ {p} : settlements'[q] = settlements[q] /\ cities'[q] = cities[q]

\* C10 as claimed: build-city on a vertex where the player holds a settlement
\* removes exactly one settlement at that vertex and adds exactly one city
\* there, whose adjacent tiles are the removed settlement's, whatever list
\* the client sends.
C10_CityCarriesSettlementAdjacency ==
    [][(last'.op = "build-city" /\ HoldsSettlementAt(last'.actor, last'.vertexId)) =>
        \E i \in DOMAIN settlements[last'.actor] :
            UpgradeTook(last'.actor, last'.vertexId, i,
                        settlements[last'.actor][i].adjacentTiles)]_vars

\* C10 as amended: build-city on a vertex where the player holds a
\* settlement removes exactly one settlement at that vertex and adds exactly
\* one city there; the city's adjacent tiles are the list the client sends
\* when that list is not empty, and the removed settlement's list otherwise.
C10_CityAdjacencySentOrCarried ==
    [][(last'.op = "build-city" /\ HoldsSettlementAt(last'.actor, last'.vertexId)) =>
        \E i \in DOMAIN settlements[last'.actor] :
            UpgradeTook(last'.actor, last'.vertexId, i,
                        IF Len(last'.adjacentTiles) > 0
                        THEN last'.adjacentTiles
                        ELSE settlements[last'.actor][i].adjacentTiles)]_vars

\* C10 witness: a city just built with no list sent carries adjacent tiles,
\* those of the settlement it replaced
C10_CarriedFromSettlement ==
    /\ last.op = "build-city"
    /\ Len(last.adjacentTiles) = 0
    /\ Len(cities[last.actor]) = 1
    /\ cities[last.actor][1].vertexId = last.vertexId
    /\ Len(cities[last.actor][1].adjacentTiles) > 0
    /\ settlements[last.actor] = <<>>

\* The fixed terrain -> resource mapping
TerrainKind ==
    {<<"forest", "wood">>, <<"hill", "brick">>, <<"pasture", "wool">>,
     <<"field", "grain">>, <<"mountain", "ore">>}

\* The tiles with token n that are not the desert, do not hold the robber
\* and whose terrain maps to kind k
CreditingTiles(n, k) ==
    {j \in DOMAIN tiles : /\ tiles[j].number = n
                          /\ tiles[j].type # "desert"
                          /\ ~tiles[j].hasRobber
                          /\ <<tiles[j].type, k>> \in TerrainKind}

\* The pairs (tile, building) of the given tiles and buildings that are adjacent
AdjacentPairs(buildings, among) ==
    {pair \in among \X DOMAIN buildings :
        \E a \in DOMAIN buildings[pair[2]].adjacentTiles :
            buildings[pair[2]].adjacentTiles[a] = tiles[pair[1]].id}

\* 1 per adjacent settlement and 2 per adjacent city, summed over the
\* crediting tiles
Credit(q, k, n) ==
    Cardinality(AdjacentPairs(settlements[q], CreditingTiles(n, k)))
    + 2 * Cardinality(AdjacentPairs(cities[q], CreditingTiles(n, k)))

\* C11: a roll of a total n other than 7 raises every player's count of
\* every kind by exactly the sum, over the tiles with token n that are not
\* the desert and do not hold the robber and whose terrain maps to the kind,
\* of 1 per adjacent settlement and 2 per adjacent city of the player.
C11_ProductionCreditsExactly ==
    [][(last'.op = "roll-dice" /\ last'.total # 7) =>
        \A q \in Players, k \in Kinds :
            resources'[q][k] = resources[q][k] + Credit(q, k, last'.total)]_vars

\* C11 witness: a roll of 4 has just paid a player two wool for a city next
\* to tile-4 (pasture, token 4) and nothing for tile-3 (forest, token 4),
\* which is next to the city too but holds the robber
C11_CityPaidRobberTileNot ==
    /\ last.op = "roll-dice"
    /\ last.total = 4
    /\ tiles[4].hasRobber
    /\ \E q \in Players :
          /\ cities[q] = <<[vertexId |-> "v1", adjacentTiles |-> <<"tile-3", "tile-4">>]>>
          /\ resources[q]["wool"] = 2
          /\ resources[q]["wood"] = 0

NameIn(name, names) == \E i \in DOMAIN names : names[i] = name

\* C13: a roll of 7 while some player holds more than the hand limit (7
\* cards, the limit of the game's rules) creates the discard obligation in
\* the same step: right after such a roll the obligation exists and names
\* every player over the limit.
C13_SevenCreatesObligation ==
    (last.op = "roll-dice" /\ last.total = 7) =>
        \A q \in Players :
            BundleTotal(resources[q]) > 7 =>
                /\ discardPhase # NoDiscard
                /\ NameIn(PlayerNames[q], discardPhase.playersNeedingToDiscard)

\* C14: a roll of 7 leaves every player's resource counts as they were.
C14_SevenProducesNothing ==
    [][(last'.op = "roll-dice" /\ last'.total = 7) => resources' = resources]_vars

\* C14 witness: a 7 has just been rolled while a player holds a city next to
\* tiles 3 and 4, whose token has paid that player before
C14_SevenRolledBesideCity ==
    /\ last.op = "roll-dice"
    /\ last.total = 7
    /\ \E q \in Players :
          /\ cities[q] = <<[vertexId |-> "v1", adjacentTiles |-> <<"tile-3", "tile-4">>]>>
          /\ resources[q]["wool"] > 0
          /\ resources[q]["wood"] > 0

\* The amount of kind k in a list of <<kind, amount>> entries
AmountOf(entries, k) ==
    SumTo([i \in DOMAIN entries |-> IF entries[i][1] = k THEN entries[i][2] ELSE 0],
          Len(entries))

\* C15: under an active obligation complete-discard succeeds exactly when no
\* discarded amount exceeds the player's holding of that kind and the
\* amounts sum to floor(hand / 2). On success exactly the bundle is deducted
\* and the player is marked complete (or, the last obligated player having
\* completed, the obligation is gone); on failure the resources and the
\* obligation are unchanged.
C15_DiscardSucceedsIffHalf ==
    [][last'.op = "complete-discard" =>
        LET p == last'.actor
            d == last'.discardedResources
            fits == \A k \in Kinds : AmountOf(d, k) <= resources[p][k]
            half == BundleTotal(resources[p]) \div 2
            succeeds == fits /\ EntriesTotal(d) = half
        IN  /\ (last'.outcome = "ok") <=> succeeds
            /\ succeeds =>
                  /\ \A q \in Players, k \in Kinds :
                        resources'[q][k] =
                            IF q = p THEN resources[q][k] - AmountOf(d, k) ELSE resources[q][k]
                  /\ \/ discardPhase' = NoDiscard
                     \/ /\ NameIn(PlayerNames[p], discardPhase'.playersCompleted)
                        /\ discardPhase'.playersNeedingToDiscard =
                               discardPhase.playersNeedingToDiscard
            /\ ~succeeds => (resources' = resources /\ discardPhase' = discardPhase)]_vars

\* C15 witness: a player holding 9 has just sent 3 and was refused for the
\* amount
C15_ThreeOfNineRefused ==
    /\ last.op = "complete-discard"
    /\ last.outcome = "wrong-amount"
    /\ BundleTotal(resources[last.actor]) = 9
    /\ EntriesTotal(last.discardedResources) = 3

\* C16: the amount complete-discard accepts from an obligated player who has
\* not yet completed is floor(hand / 2) of the hand the player held when the
\* obligation was created, whatever the hand is now.
C16_AmountFixedAtCreation ==
    [][(/\ last'.op = "complete-discard"
        /\ last'.outcome = "ok"
        /\ NameIn(PlayerNames[last'.actor], discardPhase.playersNeedingToDiscard)
        /\ ~NameIn(PlayerNames[last'.actor], discardPhase.playersCompleted)) =>
        EntriesTotal(last'.discardedResources) = heldAtCreation[last'.actor] \div 2]_vars

\* C17: an obligation is cleared exactly when every obligated player has
\* completed: an obligation that exists has an obligated player who has not
\* completed, a successful complete-discard clears it iff every obligated
\* player is then among the completed, nothing else clears it, and, every
\* obligated player eventually sending a valid discard, every obligation
\* that exists is eventually cleared.
C17_ClearedWhenAllCompleted ==
    /\ [](discardPhase # NoDiscard =>
            \E i \in DOMAIN discardPhase.playersNeedingToDiscard :
                ~NameIn(discardPhase.playersNeedingToDiscard[i], discardPhase.playersCompleted))
    /\ [][(last'.op = "complete-discard" /\ last'.outcome = "ok") =>
            ((discardPhase' = NoDiscard) <=>
                \A i \in DOMAIN discardPhase.playersNeedingToDiscard :
                    \/ discardPhase.playersNeedingToDiscard[i] = PlayerNames[last'.actor]
                    \/ NameIn(discardPhase.playersNeedingToDiscard[i],
                              discardPhase.playersCompleted))]_vars
    /\ [][(discardPhase # NoDiscard /\ discardPhase' = NoDiscard) =>
            (last'.op = "complete-discard" /\ last'.outcome = "ok")]_vars
    /\ (discardPhase # NoDiscard) ~> (discardPhase = NoDiscard)

\* C18: move-robber that names the acting player as victim changes nothing:
\* the robber stays on its tile and no resource count changes.
C18_SelfTargetChangesNothing ==
    [][(last'.op = "move-robber" /\ last'.targetPlayerId = PlayerIdStrings[last'.actor]) =>
        (tiles' = tiles /\ resources' = resources)]_vars

\* The players a victim id names: the player with that id, or the player at
\* the 1-based position the id reads as
VictimsNamed(targetPlayerId) ==
    {q \in Players : PlayerIdStrings[q] = targetPlayerId \/ ParseInt(targetPlayerId) = q}

\* C19: move-robber naming a victim other than the actor moves one unit of
\* one kind the victim holds from the victim to the actor and changes no
\* other count; when the victim holds nothing, no count changes.
C19_StealMovesOneUnit ==
    [][last'.op = "move-robber" =>
        \A victim \in VictimsNamed(last'.targetPlayerId) \ {last'.actor} :
            IF \E k \in Kinds : resources[victim][k] > 0
            THEN \E k \in Kinds :
                    /\ resources[victim][k] > 0
                    /\ resources' = [resources EXCEPT ![victim][k] = @ - 1,
                                                      ![last'.actor][k] = @ + 1]
                    /\ last'.stolenResource = k
            ELSE resources' = resources]_vars

\* C19 witness: a steal has just moved a unit to the actor from a victim
\* named by position ("02"), and both hold some of that kind
C19_StoleFromVictim ==
    /\ last.op = "move-robber"
    /\ last.targetPlayerId = "02"
    /\ last.actor = 1
    /\ last.stolenResource \in Kinds
    /\ resources[1][last.stolenResource] > 0
    /\ resources[2][last.stolenResource] > 0

\* C20: build-settlement in a phase other than setup takes wood 1, brick 1,
\* wool 1 and grain 1 from a player who holds them, and in setup takes
\* nothing.
C20_SettlementCostInPlay ==
    [][last'.op = "build-settlement" =>
        LET p == last'.actor
            cost == [k \in Kinds |-> IF k = "ore" THEN 0 ELSE 1]
        IN  /\ (gamePhase \notin {"setup", "SETUP"} /\ \A k \in Kinds : resources[p][k] >= cost[k]) =>
                  \A k \in Kinds : resources'[p][k] = resources[p][k] - cost[k]
            /\ gamePhase \in {"setup", "SETUP"} =>
                  \A k \in Kinds : resources'[p][k] >= resources[p][k]]_vars

\* The settlements player p has placed so far, where every city is an
\* upgraded settlement
Placed(p) == Len(settlements[p]) + Len(cities[p])

\* C21: in setup, placing a player's second settlement credits one unit of
\* the mapped resource for each adjacent tile that is not the desert, with
\* or without the robber on it; the first settlement, a third or later one,
\* and every settlement placed in play credit nothing.
C21_SetupBonusOnSecondOnly ==
    [][last'.op = "build-settlement" =>
        LET p == last'.actor
            adj == last'.adjacentTiles
        IN  IF gamePhase = "setup" /\ Placed(p) = 1
            THEN \A k \in Kinds :
                    resources'[p][k] = resources[p][k] +
                        Cardinality({i \in DOMAIN adj :
                            \E j \in DOMAIN tiles :
                                /\ tiles[j].id = adj[i]
                                /\ tiles[j].type # "desert"
                                /\ <<tiles[j].type, k>> \in TerrainKind})
            ELSE \A k \in Kinds : resources'[p][k] <= resources[p][k]]_vars

\* C22: build-road takes the ROAD cost (wood 1, brick 1) from the sender
\* exactly when the phase marker sent with the action is the play marker,
\* and nothing for any other marker; either way one road is appended to the
\* sender's roads and no other player changes.
C22_RoadCostByMarker ==
    [][last'.op = "build-road" =>
        LET p == last'.actor
            cost == [k \in Kinds |-> IF k \in {"wood", "brick"} THEN 1 ELSE 0]
        IN  /\ roads'[p] = Append(roads[p], [edgeId |-> last'.edgeId])
            /\ \A k \in Kinds :
                  resources'[p][k] = IF last'.gamePhase = "PLAY"
                                     THEN resources[p][k] - cost[k]
                                     ELSE resources[p][k]
            /\ settlements'[p] = settlements[p]
            /\ cities'[p] = cities[p]
            /\ points'[p] = points[p]
            /\ \A q \in Players \ {p} :
                  /\ resources'[q] = resources[q]
                  /\ roads'[q] = roads[q]
                  /\ settlements'[q] = settlements[q]
                  /\ cities'[q] = cities[q]
                  /\ points'[q] = points[q]]_vars

\* C22 witness: a road paid for under the play marker while the session is
\* in setup, beside a player who built nothing
C22_RoadPaidUnderPlayMarker ==
    /\ last.op = "build-road"
    /\ last.gamePhase = "PLAY"
    /\ gamePhase = "setup"
    /\ Len(roads[last.actor]) = 1
    /\ resources[last.actor]["wood"] = 0 - 1
    /\ \E q \in Players \ {last.actor} : Len(roads[q]) = 0

\* The place of a phase along setup -> play -> ended
PhaseRank(phase) ==
    CASE phase \in {"setup", "SETUP"} -> 0
      [] phase \in {"play", "PLAY"}   -> 1
      [] OTHER                         -> 2

\* C24: the session phase only moves forward along setup -> play -> ended,
\* and it leaves setup only when every participant has placed two
\* settlements and two roads.
C24_PhaseOnlyForward ==
    [][/\ PhaseRank(gamePhase') >= PhaseRank(gamePhase)
       /\ (PhaseRank(gamePhase) = 0 /\ PhaseRank(gamePhase') > 0) =>
              \A p \in Players : Placed(p) >= 2 /\ Len(roads[p]) >= 2]_vars

\* The player whose turn it is, as a position in game.players
CurrentActor == currentPlayerIndex + 1

\* C25: a roll, a build, a robber move or a bank trade sent by a participant
\* who is not the session's current actor is rejected and leaves the whole
\* session state unchanged.
C25_OnlyCurrentActorActs ==
    [][(/\ last'.op \in {"roll-dice", "build-settlement", "build-city", "build-road",
                         "move-robber", "bank-trade"}
        /\ last'.actor # CurrentActor) => UNCHANGED gameVars]_vars

\* C26: end-turn moves the current-actor index to the next participant in
\* order, wrapping after the last, and no other action changes the index.
C26_EndTurnAdvancesActor ==
    [][/\ last'.op = "end-turn" =>
              currentPlayerIndex' = (currentPlayerIndex + 1) % Len(PlayerNames)
       /\ currentPlayerIndex' # currentPlayerIndex => last'.op = "end-turn"]_vars

\* C29: under an active discard obligation only an obligated player
\* discards, and at most once: complete-discard sent by a player who is not
\* named in the obligation, or who has already completed, takes no resource.
C29_OnlyObligatedDiscardOnce ==
    [][(/\ last'.op = "complete-discard"
        /\ discardPhase # NoDiscard
        /\ \/ ~NameIn(PlayerNames[last'.actor], discardPhase.playersNeedingToDiscard)
           \/ NameIn(PlayerNames[last'.actor], discardPhase.playersCompleted)) =>
        resources' = resources]_vars

\* How many tiles of ts satisfy being of the given type
TilesOfType(ts, type) == Cardinality({i \in DOMAIN ts : ts[i].type = type})

\* How many of the tiles of ts other than the desert carry token n
TilesWithToken(ts, n) ==
    Cardinality({i \in DOMAIN ts : ts[i].type # "desert" /\ ts[i].number = n})

\* C28: every generated board has 19 tiles, 4 forest, 4 pasture, 4 field,
\* 3 hill, 3 mountain and 1 desert; the 18 tiles other than the desert carry
\* exactly the tokens 2,3,3,4,4,5,5,6,6,8,8,9,9,10,10,11,11,12; the desert
\* has no token; the desert and no other tile holds the robber; the rows
\* have 3, 4, 5, 4 and 3 tiles.
C28_GeneratedBoardWellFormed ==
    (last.op = "start-game" /\ last.outcome = "started") =>
        /\ Len(tiles) = 19
        /\ TilesOfType(tiles, "forest") = 4
        /\ TilesOfType(tiles, "pasture") = 4
        /\ TilesOfType(tiles, "field") = 4
        /\ TilesOfType(tiles, "hill") = 3
        /\ TilesOfType(tiles, "mountain") = 3
        /\ TilesOfType(tiles, "desert") = 1
        /\ \A n \in 2..12 :
              TilesWithToken(tiles, n) = IF n = 7 THEN 0
                                         ELSE IF n \in {2, 12} THEN 1 ELSE 2
        /\ \A i \in DOMAIN tiles :
              /\ tiles[i].type = "desert" <=> tiles[i].number = NoNumber
              /\ tiles[i].type = "desert" <=> tiles[i].hasRobber
        /\ robberPosition = CHOOSE i \in 0..18 : tiles[i + 1].type = "desert"
        /\ [r \in 1..5 |-> Len(rowTiles(tiles)[r])] = <<3, 4, 5, 4, 3>>
        /\ rowTiles(tiles)[1] \o rowTiles(tiles)[2] \o rowTiles(tiles)[3]
              \o rowTiles(tiles)[4] \o rowTiles(tiles)[5] = tiles

\* C28 witness: a board generated by a later start-game with the desert in
\* the middle row and the tokens after it moved up
C28_DesertInMiddleRow ==
    /\ last.op = "start-game"
    /\ last.outcome = "started"
    /\ tiles[10].type = "desert"
    /\ tiles[11].number = numberTokens[10]
    /\ tiles[19].type # "mountain"

\* C30: start-game takes effect once: sent by the host to a session that is
\* already playing, it leaves the board (and with it the robber), the phase
\* and every player's resources, buildings and points unchanged.
C30_StartGameOnce ==
    [][(last'.op = "start-game" /\ last'.actor = 1) =>
        UNCHANGED <<tiles, gamePhase, resources, settlements, cities, roads, points>>]_vars

\* Connection c is among the players of the stored session g
Participates(c, g) == c \in SocketsOf(games[g])

\* C23: no action sent by a connection that takes part in another session,
\* or in none, changes the state of a session: its phase, board, robber,
\* players and resources stay as they are (and the session stays stored).
C23_SessionsIsolated ==
    [][\A g \in DOMAIN games :
          ~Participates(last'.socketId, g) =>
              /\ g \in DOMAIN games'
              /\ games'[g].gameState = games[g].gameState]_vars

\* Connection c holds the place of the player who created session g
OriginatingHost(c, g) ==
    \E i \in DOMAIN games[g].players :
        /\ games[g].players[i].socketId = c
        /\ games[g].players[i].name = games[g].host

\* C27: leaving a session (leave-game or disconnect) removes the leaver from
\* its participants; the session is destroyed iff the leaver was the
\* originating host or no participant remains; and once it is destroyed, no
\* later action aimed at it by a former participant changes any state.
C27_LeaveRemovesAndDestroys ==
    /\ [][(last'.op = "leave" /\ last'.outcome = "left") =>
            LET c == last'.socketId
                g == playerSockets[c].gameId
            IN  /\ g \in DOMAIN games' => c \notin SocketsOf(games'[g])
                /\ g \notin DOMAIN games' <=>
                      \/ OriginatingHost(c, g)
                      \/ PlayersNotOf(games[g].players, c) = <<>>]_vars
    /\ [][(/\ last'.op \in {"start-game", "build-road", "leave"}
           /\ Recorded(last'.socketId)
           /\ ~Stored(playerSockets[last'.socketId].gameId)) =>
            UNCHANGED lobbyVars]_vars
    /\ [][(/\ last'.op \in {"join-game", "game-phase-update"}
           /\ ~Stored(last'.gameId)) =>
            UNCHANGED lobbyVars]_vars

\* How many entries of the players of the stored session g carry socket c
EntriesOf(c, g) ==
    Cardinality({i \in DOMAIN games[g].players : games[g].players[i].socketId = c})

\* C31: a connection takes part in at most one session and appears at most
\* once among its players: whatever create-game and join-game it has sent,
\* it is listed once in the session its player record points to and in no
\* other, and every stored session has a connection recorded as its host.
C31_OneSessionPerConnection ==
    /\ \A g \in DOMAIN games :
          \A c \in SocketsOf(games[g]) \cup DOMAIN playerSockets :
              EntriesOf(c, g) = IF Recorded(c) /\ playerSockets[c].gameId = g THEN 1 ELSE 0
    /\ \A g \in DOMAIN games :
          \E c \in DOMAIN playerSockets :
              playerSockets[c].gameId = g /\ playerSockets[c].isHost

\* C32: a session has at most 4 participants, with pairwise distinct names,
\* in every reachable state; its status never goes from playing back to
\* waiting; no participant is added once it is playing; and it becomes
\* playing only by a start-game from its host while it has at least 2
\* participants.
C32_SessionWellFormed ==
    /\ [](\A g \in DOMAIN games :
            /\ Len(games[g].players) <= 4
            /\ \A i, j \in DOMAIN games[g].players :
                  games[g].players[i].name = games[g].players[j].name => i = j)
    /\ [][\A g \in DOMAIN games \cap DOMAIN games' :
            /\ games[g].status = "playing" =>
                  /\ games'[g].status = "playing"
                  /\ \A i \in DOMAIN games'[g].players :
                        \E j \in DOMAIN games[g].players :
                            games'[g].players[i] = games[g].players[j]
            /\ (games[g].status = "waiting" /\ games'[g].status = "playing") =>
                  /\ last'.op = "start-game"
                  /\ Recorded(last'.socketId)
                  /\ playerSockets[last'.socketId].isHost
                  /\ playerSockets[last'.socketId].gameId = g
                  /\ OriginatingHost(last'.socketId, g)
                  /\ Len(games[g].players) >= 2]_vars
    /\ [][\A g \in DOMAIN games' \ DOMAIN games : games'[g].status = "waiting"]_vars

\* C32 witness: a fifth join refused by a session of four players, while
\* another session is playing
C32_FifthJoinRefused ==
    /\ last.op = "join-game"
    /\ last.outcome = "full"
    /\ Len(games[last.gameId].players) = 4
    /\ \E g \in DOMAIN games : games[g].status = "playing"

====
